---- MODULE Spec2Model ----
(***************************************************************************)
(* Ride lifecycle and booking engine of the ride-sharing backend           *)
(* (routes/rides: POST /, /join, /start, /complete, /cancel).              *)
(*                                                                         *)
(* Time is counted in whole hours since midnight (server clock, UTC) of    *)
(* day 0.  A Date is the number of hours since that instant.               *)
(* share_fare, a quotient of two numbers, is kept as the exact fraction    *)
(* [num, den].  A RideParticipant row is identified by its (ride_id,       *)
(* user_id), which the schema keeps unique; a RideCancellation row is      *)
(* kept without its cancelled_at, which nothing reads.                     *)
(***************************************************************************)
EXTENDS Integers, FiniteSets, Sequences, TLC

\* ------------------------------------------------------------------ bounds
Users == {"u1", "u2", "u3"}
RideIds == {"r1", "r2"}
RideIdOrder == <<"r1", "r2">>   \* the order in which fresh ride ids are handed out
FirstHost == "u1"               \* users are interchangeable: u1 hosts the first ride
Slots == {"a", "b"}             \* requests that may be in flight at once

MaxNow == 1                 \* the clock stops advancing here
MaxCancels == 1             \* RideCancellation rows the log may hold
MaxCancelsConc == 1         \* the same, while requests interleave
MaxParticipantRows == 2     \* RideParticipant rows the table may hold
InitialCredibility == 10    \* credibility_score of a fresh user
ObservedRides == {"r1"}     \* the rides created while responses are recorded
MaxNowObs == 1              \* the clock's last hour while responses are recorded
MaxCancelsObs == 1          \* RideCancellation rows while responses are recorded

\* request bodies accepted by rideCreateSchema that the model submits, both
\* for today: a ride at 01:00 with two free seats and a small fare (its
\* start_time is an instant of tomorrow, of which only the time of day is
\* used), and a ride at 03:00 with one free seat
RideRequests ==
    { [start_date |-> 0, start_time |-> 25, total_fare |-> 4, vehicle_type |-> "car",
       max_passengers |-> 3],
      [start_date |-> 0, start_time |-> 3, total_fare |-> 12, vehicle_type |-> "car",
       max_passengers |-> 2] }

\* request bodies, well-formed or not, submitted to POST /rides when only rides
\* are created: every vehicle type with seat counts around the limits
CreateRequests ==
    { [start_date |-> 0, start_time |-> 3, total_fare |-> 12, vehicle_type |-> v,
       max_passengers |-> m] : v \in {"car", "suv", "auto"}, m \in {0, 1, 3, 4, 6, 7} }

\* ------------------------------------------------------- program constants
HoursPerDay == 24
LateCancelHours == 3
LatePenalty == 5
EarlyPenalty == 2
MinPassengers == 1
MaxPassengers == 6

NoRide == [status |-> "none"]
NoRec == [status |-> "none"]

NoRequest == [pc |-> "idle"]

NoResponse == [op |-> "none"]

VARIABLES
    rides,          \* Ride table: ride_id -> row or NoRide
    participants,   \* RideParticipant table: ride_id -> user_id -> row or NoRec
    users,          \* User table: credibility_score and cancellation_count
    cancellations,  \* RideCancellation table, in insertion order
    now,            \* the server clock
    inflight,       \* slot -> the request being handled there, between two awaits
    response,       \* the last response sent, with the request it answers
    vehicles        \* Vehicle table: user_id -> vehicle_type of the user's vehicle

vars == <<rides, participants, users, cancellations, now, inflight, vehicles>>

obsVars == <<vars, response>>

\* ----------------------------------------------------------- pure helpers
DayStart(d) == d - (d % HoursPerDay)
HourOfDay(t) == t % HoursPerDay

\* /start: new Date(Y, M, D of start_date, h, m, s, ms of start_time)
rideStartDateTime(ride) == DayStart(ride.start_date) + HourOfDay(ride.start_time)

\* /cancel: new Date(start_date) with setHours(hours, minutes of start_time)
startDateTime(ride) == DayStart(ride.start_date) + HourOfDay(ride.start_time)

diffHours(ride, t) == startDateTime(ride) - t

\* the boundary counted as late
driverPenaltyInclusive(ride, t) == IF diffHours(ride, t) <= LateCancelHours THEN LatePenalty ELSE EarlyPenalty

driverPenalty(ride, t) == IF diffHours(ride, t) < LateCancelHours THEN LatePenalty ELSE EarlyPenalty

\* Math.round(x) for x = n / d >= 0 is floor(x + 1/2)
RoundFrac(n, d) == (2 * n + d) \div (2 * d)

\* Math.max(0, Math.round(Number(share_fare) * 0.25)) when diffHours < 3, else 0
participantPenalty(ride, rp, t) ==
    IF diffHours(ride, t) < LateCancelHours
    THEN LET p == RoundFrac(rp.share_fare.num, 4 * rp.share_fare.den)
         IN IF p > 0 THEN p ELSE 0
    ELSE 0

credibilityDecrement(penalty) == IF penalty > 0 THEN LatePenalty ELSE EarlyPenalty

BookedUsers(rideParts) == {u \in Users : rideParts[u].status = "booked"}

bookedCount(rideParts) == Cardinality(BookedUsers(rideParts))

rowCount(ps) == Cardinality({x \in RideIds \X Users : ps[x[1]][x[2]] # NoRec})

\* prisma.rideParticipant.findFirst: a booked record of the user on a ride
\* whose status is in ["open", "booked"] and whose start_date >= new Date()
activeBooking(u, rs, ps, t) ==
    \E r \in RideIds :
        /\ rs[r] # NoRide
        /\ ps[r][u].status = "booked"
        /\ rs[r].status \in {"open", "booked"}
        /\ rs[r].start_date >= t

\* the joiner left out of the headcount
shareWithoutJoiner(ride, rideParts) == [num |-> ride.total_fare, den |-> bookedCount(rideParts) + 1]

\* Number(total_fare) / newHeadcount
share(ride, rideParts) == [num |-> ride.total_fare, den |-> bookedCount(rideParts) + 1 + 1]

\* orderBy booking_time "desc"
LastBookedCandidates(rideParts) ==
    {u \in BookedUsers(rideParts) :
        \A v \in BookedUsers(rideParts) : rideParts[u].booking_time >= rideParts[v].booking_time}

\* booked participants first in booking_time order (ties in any order)
FirstBookedCandidates(rideParts) ==
    {u \in BookedUsers(rideParts) :
        \A v \in BookedUsers(rideParts) : rideParts[u].booking_time <= rideParts[v].booking_time}

\* ------------------------------------------------------------------- Init
Init ==
    /\ rides = [r \in RideIds |-> NoRide]
    /\ participants = [r \in RideIds |-> [u \in Users |-> NoRec]]
    /\ users = [u \in Users |-> [credibility_score |-> InitialCredibility, cancellation_count |-> 0]]
    /\ cancellations = <<>>
    /\ now = 0
    /\ inflight = [s \in Slots |-> NoRequest]
    /\ response = NoResponse
    /\ vehicles = [u \in Users |-> "none"]

\* --------------------------------------------------------------- handlers
\* rideCreateSchema.parse(req.body) does not throw
rideCreateSchema(body) ==
    /\ body.total_fare > 0
    /\ body.vehicle_type \in {"car", "suv", "auto"}
    /\ body.max_passengers >= MinPassengers /\ body.max_passengers <= MaxPassengers

\* POST /rides: the vehicle of the user created or updated, then the ride
\* created with it; a vehicle is identified by its user_id, which is unique
createRide(u, r, body) ==
    /\ rides[r] = NoRide
    /\ r = RideIdOrder[1] => u = FirstHost
    /\ \E i \in 1..Len(RideIdOrder) :
          r = RideIdOrder[i] /\ \A j \in 1..(i - 1) : rides[RideIdOrder[j]] # NoRide
    /\ IF ~rideCreateSchema(body)
       THEN UNCHANGED vars
       ELSE /\ vehicles' = [vehicles EXCEPT ![u] = body.vehicle_type]
            /\ rides' = [rides EXCEPT ![r] =
                    [status |-> "open", driver_id |-> u, vehicle_id |-> u,
                     start_date |-> body.start_date, start_time |-> body.start_time,
                     total_fare |-> body.total_fare, max_passengers |-> body.max_passengers]]
            /\ UNCHANGED <<participants, users, cancellations, now, inflight>>

\* a cancelled ride taken for an open one
joinPrecheckCancelledOpen(ride, u) ==
    IF ride = NoRide THEN "RideNotFound"
    ELSE IF ride.status \notin {"open", "cancelled"} THEN "RideNotOpen"
    ELSE IF ride.driver_id = u THEN "Cannot book your own ride"
    ELSE "ok"

\* POST /rides/join: the checks in the order of the code, "ok" when all pass.
\* ride and rideParts are what findUnique({include: {participants}}) returned,
\* active the result of the findFirst, existing that of the second findUnique.
joinPrecheck(ride, u) ==
    IF ride = NoRide THEN "RideNotFound"
    ELSE IF ride.status # "open" THEN "RideNotOpen"
    ELSE IF ride.driver_id = u THEN "Cannot book your own ride"
    ELSE "ok"

\* the host left out of the comparison
joinCapacityOffByOne(ride, rideParts) ==
    IF bookedCount(rideParts) + 1 > ride.max_passengers THEN "RideFull" ELSE "ok"

joinCapacity(ride, rideParts) ==
    IF bookedCount(rideParts) + 1 >= ride.max_passengers THEN "RideFull" ELSE "ok"

joinError(ride, rideParts, active, existing, u) ==
    IF joinPrecheck(ride, u) # "ok" THEN joinPrecheck(ride, u)
    ELSE IF active THEN "You already have an active booking for another ride"
    ELSE IF joinCapacity(ride, rideParts) # "ok" THEN "RideFull"
    ELSE IF existing # NoRec /\ existing.status = "booked" THEN "AlreadyBooked"
    ELSE "ok"

\* a reused row stamped with the time of the rejoin
joinWriteResetsBookingTime(ps, existing, u, r, sh, t) ==
    [ps EXCEPT ![r][u] = [status |-> "booked", share_fare |-> sh, booking_time |-> t]]

\* every booked row of the ride given the new share as well
joinWriteResplits(ps, existing, u, r, sh, t) ==
    [ps EXCEPT ![r] = [v \in Users |->
        IF v = u
        THEN IF existing # NoRec
             THEN [ps[r][u] EXCEPT !.status = "booked", !.share_fare = sh]
             ELSE [status |-> "booked", share_fare |-> sh, booking_time |-> t]
        ELSE IF ps[r][v].status = "booked" THEN [ps[r][v] EXCEPT !.share_fare = sh]
        ELSE ps[r][v]]]

\* rideParticipant.update({where: {id}, data: {status: "booked", share_fare}})
\* or rideParticipant.create({data: {ride_id, user_id, share_fare}});
\* a row is identified by its (ride_id, user_id), booking_time defaults to now
joinWrite(ps, existing, u, r, sh, t) ==
    IF existing # NoRec
    THEN [ps EXCEPT ![r][u] = [@ EXCEPT !.status = "booked", !.share_fare = sh]]
    ELSE [ps EXCEPT ![r][u] = [status |-> "booked", share_fare |-> sh, booking_time |-> t]]

\* the response of joinRide(u, r) in the current state
joinResult(u, r) ==
    joinError(rides[r], participants[r], activeBooking(u, rides, participants, now),
              participants[r][u], u)

joinRide(u, r) ==
    IF joinResult(u, r) # "ok"
    THEN UNCHANGED vars
    ELSE /\ participants[r][u] = NoRec => rowCount(participants) < MaxParticipantRows
         /\ participants' = joinWrite(participants, participants[r][u], u, r,
                                      share(rides[r], participants[r]), now)
         /\ UNCHANGED <<rides, users, cancellations, now, inflight, vehicles>>

\* only a ride under way counted as being in the wrong state
startErrorOnlyActiveInvalid(ride, u, t) ==
    IF ride = NoRide THEN "RideNotFound"
    ELSE IF ride.driver_id # u THEN "NotRideOwner"
    ELSE IF ride.status = "active" THEN "InvalidState"
    ELSE IF t < rideStartDateTime(ride) THEN "Can't start before start time"
    ELSE "ok"

\* POST /rides/start
startError(ride, u, t) ==
    IF ride = NoRide THEN "RideNotFound"
    ELSE IF ride.driver_id # u THEN "NotRideOwner"
    ELSE IF ride.status # "open" THEN "InvalidState"
    ELSE IF t < rideStartDateTime(ride) THEN "Can't start before start time"
    ELSE "ok"

startResult(u, r) == startError(rides[r], u, now)

\* the ride updated before the clock is looked at
startRideBeforeClock(u, r) ==
    /\ rides' = IF startResult(u, r) \in {"ok", "Can't start before start time"}
                THEN [rides EXCEPT ![r].status = "active"] ELSE rides
    /\ UNCHANGED <<participants, users, cancellations, now, inflight, vehicles>>

startRide(u, r) ==
    /\ rides' = IF startResult(u, r) = "ok" THEN [rides EXCEPT ![r].status = "active"] ELSE rides
    /\ UNCHANGED <<participants, users, cancellations, now, inflight, vehicles>>

\* ownership decided by the user who created the ride
completeErrorCreatorOwns(ride, u) ==
    IF ride = NoRide THEN "RideNotFound"
    ELSE IF ride.vehicle_id # u THEN "NotRideOwner"
    ELSE IF ride.status # "active" THEN "InvalidState"
    ELSE "ok"

\* POST /rides/complete
completeError(ride, u) ==
    IF ride = NoRide THEN "RideNotFound"
    ELSE IF ride.driver_id # u THEN "NotRideOwner"
    ELSE IF ride.status # "active" THEN "InvalidState"
    ELSE "ok"

completeResult(u, r) == completeError(rides[r], u)

completeRide(u, r) ==
    /\ rides' = IF completeResult(u, r) = "ok" THEN [rides EXCEPT ![r].status = "completed"] ELSE rides
    /\ UNCHANGED <<participants, users, cancellations, now, inflight, vehicles>>

\* POST /rides/cancel
logCancellation(log, u, r) == Append(log, [ride_id |-> r, user_id |-> u])

applyPenalty(us, u, dec) ==
    [us EXCEPT ![u] = [credibility_score |-> @.credibility_score - dec,
                       cancellation_count |-> @.cancellation_count + 1]]

\* the caller has no participant record: not-found / not-owner checks
driverCancelError(ride, u) ==
    IF ride = NoRide THEN "RideNotFound"
    ELSE IF ride.driver_id # u THEN "NotRideOwner"
    ELSE "ok"

\* which branch cancelRide(u, r) takes in the current state
cancelBranch(u, r) ==
    IF participants[r][u] # NoRec THEN "participant"
    ELSE IF driverCancelError(rides[r], u) = "ok" THEN "driver"
    ELSE driverCancelError(rides[r], u)

\* Boolean(ride.participants[0])
transferred(firstBooked) == firstBooked # "none"

\* every participant row of the ride deleted on succession
driverCancelDeletesAll(u, r, firstBooked) ==
    /\ cancellations' = logCancellation(cancellations, u, r)
    /\ users' = applyPenalty(users, u, driverPenalty(rides[r], now))
    /\ IF firstBooked # "none"
       THEN /\ rides' = [rides EXCEPT ![r] = [@ EXCEPT !.driver_id = firstBooked, !.status = "open"]]
            /\ participants' = [participants EXCEPT ![r] = [v \in Users |-> NoRec]]
       ELSE /\ rides' = [rides EXCEPT ![r].status = "cancelled"]
            /\ UNCHANGED participants
    /\ UNCHANGED <<now, inflight, vehicles>>

\* the promoted participant's row left in place
driverCancelKeepsRow(u, r, firstBooked) ==
    /\ cancellations' = logCancellation(cancellations, u, r)
    /\ users' = applyPenalty(users, u, driverPenalty(rides[r], now))
    /\ IF firstBooked # "none"
       THEN /\ rides' = [rides EXCEPT ![r] = [@ EXCEPT !.driver_id = firstBooked, !.status = "open"]]
            /\ UNCHANGED participants
       ELSE /\ rides' = [rides EXCEPT ![r].status = "cancelled"]
            /\ UNCHANGED participants
    /\ UNCHANGED <<now, inflight, vehicles>>

\* the ride left as it is when nobody is booked
driverCancelKeepsStatus(u, r, firstBooked) ==
    /\ cancellations' = logCancellation(cancellations, u, r)
    /\ users' = applyPenalty(users, u, driverPenalty(rides[r], now))
    /\ IF firstBooked # "none"
       THEN /\ rides' = [rides EXCEPT ![r] = [@ EXCEPT !.driver_id = firstBooked, !.status = "open"]]
            /\ participants' = [participants EXCEPT ![r][firstBooked] = NoRec]
       ELSE UNCHANGED <<rides, participants>>
    /\ UNCHANGED <<now, inflight, vehicles>>

\* the driver's transaction; firstBooked is ride.participants[0] or "none"
driverCancel(u, r, firstBooked) ==
    /\ cancellations' = logCancellation(cancellations, u, r)
    /\ users' = applyPenalty(users, u, driverPenalty(rides[r], now))
    /\ IF firstBooked # "none"
       THEN /\ rides' = [rides EXCEPT ![r] = [@ EXCEPT !.driver_id = firstBooked, !.status = "open"]]
            /\ participants' = [participants EXCEPT ![r][firstBooked] = NoRec]
       ELSE /\ rides' = [rides EXCEPT ![r].status = "cancelled"]
            /\ UNCHANGED participants
    /\ UNCHANGED <<now, inflight, vehicles>>

\* the ride reopened in the caller's name when nobody is left
participantCancelReassigns(u, r, rp) ==
    LET ps == [participants EXCEPT ![r][u].status = "cancelled"]
        remaining == bookedCount(ps[r])
        penalty == participantPenalty(rides[r], rp, now)
    IN /\ participants' = ps
       /\ cancellations' = logCancellation(cancellations, u, r)
       /\ rides' = IF remaining = 0
                   THEN [rides EXCEPT ![r] = [@ EXCEPT !.status = "open", !.driver_id = u]]
                   ELSE rides
       /\ users' = applyPenalty(users, u, credibilityDecrement(penalty))
       /\ UNCHANGED <<now, inflight, vehicles>>

\* the remaining participants counted before the caller's row is updated
participantCancelCountsFirst(u, r, rp) ==
    LET ps == [participants EXCEPT ![r][u].status = "cancelled"]
        remaining == bookedCount(participants[r])
        penalty == participantPenalty(rides[r], rp, now)
    IN /\ participants' = ps
       /\ cancellations' = logCancellation(cancellations, u, r)
       /\ rides' = IF remaining = 0 THEN [rides EXCEPT ![r].status = "open"] ELSE rides
       /\ users' = applyPenalty(users, u, credibilityDecrement(penalty))
       /\ UNCHANGED <<now, inflight, vehicles>>

\* the participant's transaction; rp is the caller's record
participantCancel(u, r, rp) ==
    LET ps == [participants EXCEPT ![r][u].status = "cancelled"]
        remaining == bookedCount(ps[r])
        penalty == participantPenalty(rides[r], rp, now)
    IN /\ participants' = ps
       /\ cancellations' = logCancellation(cancellations, u, r)
       /\ rides' = IF remaining = 0 THEN [rides EXCEPT ![r].status = "open"] ELSE rides
       /\ users' = applyPenalty(users, u, credibilityDecrement(penalty))
       /\ UNCHANGED <<now, inflight, vehicles>>

\* the RideCancellation row written before the ride is looked up
cancelRideLogsFirst(u, r) ==
    IF cancelBranch(u, r) = "participant"
    THEN participantCancel(u, r, participants[r][u])
    ELSE IF cancelBranch(u, r) = "driver"
    THEN IF BookedUsers(participants[r]) = {}
         THEN driverCancel(u, r, "none")
         ELSE \E first \in FirstBookedCandidates(participants[r]) : driverCancel(u, r, first)
    ELSE /\ cancellations' = logCancellation(cancellations, u, r)
         /\ UNCHANGED <<rides, participants, users, now, inflight, vehicles>>

cancelRide(u, r) ==
    IF cancelBranch(u, r) = "participant"
    THEN participantCancel(u, r, participants[r][u])
    ELSE IF cancelBranch(u, r) = "driver"
    THEN IF BookedUsers(participants[r]) = {}
         THEN driverCancel(u, r, "none")
         ELSE \E first \in FirstBookedCandidates(participants[r]) : driverCancel(u, r, first)
    ELSE UNCHANGED vars

\* res.json(...) of cancelRide(u, r) in the current state
cancelResponse(u, r) ==
    IF cancelBranch(u, r) = "participant"
    THEN [cancelled |-> TRUE, penalty |-> participantPenalty(rides[r], participants[r][u], now)]
    ELSE IF cancelBranch(u, r) = "driver"
    THEN [cancelled |-> TRUE, driver_cancelled |-> TRUE,
          transferred |-> transferred(IF BookedUsers(participants[r]) = {} THEN "none"
                                      ELSE CHOOSE f \in FirstBookedCandidates(participants[r]) : TRUE)]
    ELSE [error |-> cancelBranch(u, r)]

\* the error of res.status(...).json({error}), "ok" for res.json({cancelled: true, ...})
cancelResult(u, r) ==
    IF cancelBranch(u, r) \in {"participant", "driver"} THEN "ok" ELSE cancelBranch(u, r)

\* a cancelRide request, while the RideCancellation table has room for its row
cancelRequest(u, r, max) == cancelRide(u, r) /\ Len(cancellations') <= max

\* time passes between requests
Tick(max) ==
    /\ now < max
    /\ now' = now + 1
    /\ UNCHANGED <<rides, participants, users, cancellations, inflight, vehicles>>

\* ------------------------------------------- POST /rides/join, await by await
\* The handler holds no transaction: each prisma call is one step, and other
\* requests run between two of them.
Done(req, result) ==
    [pc |-> "done", user_id |-> req.user_id, ride_id |-> req.ride_id,
     ride |-> req.ride, rideParts |-> req.rideParts, result |-> result]

\* const ride = await prisma.ride.findUnique(...), then the checks on it
joinFindRide(s, u, r) ==
    /\ inflight[s] = NoRequest
    /\ LET req == [pc |-> "findActive", user_id |-> u, ride_id |-> r,
                   ride |-> rides[r], rideParts |-> participants[r]]
       IN inflight' = [inflight EXCEPT ![s] =
              IF joinPrecheck(rides[r], u) # "ok" THEN Done(req, joinPrecheck(rides[r], u)) ELSE req]
    /\ UNCHANGED <<rides, participants, users, cancellations, now, vehicles>>

\* const active = await prisma.rideParticipant.findFirst(...), then the
\* capacity check on the participants read with the ride
joinFindActive(s) ==
    /\ inflight[s].pc = "findActive"
    /\ LET req == inflight[s]
           err == joinError(req.ride, req.rideParts,
                            activeBooking(req.user_id, rides, participants, now), NoRec, req.user_id)
       IN inflight' = [inflight EXCEPT ![s] =
              IF err # "ok" THEN Done(req, err) ELSE [req EXCEPT !.pc = "findExisting"]]
    /\ UNCHANGED <<rides, participants, users, cancellations, now, vehicles>>

\* const existing = await prisma.rideParticipant.findUnique(...)
joinFindExisting(s) ==
    /\ inflight[s].pc = "findExisting"
    /\ LET req == inflight[s]
           existing == participants[req.ride_id][req.user_id]
       IN inflight' = [inflight EXCEPT ![s] =
              IF existing.status = "booked" THEN Done(req, "AlreadyBooked")
              ELSE [pc |-> "write", user_id |-> req.user_id, ride_id |-> req.ride_id,
                    ride |-> req.ride, rideParts |-> req.rideParts, existing |-> existing]]
    /\ UNCHANGED <<rides, participants, users, cancellations, now, vehicles>>

\* await prisma.rideParticipant.update(...) or create(...): updating a row that
\* is gone, or creating a second row for (ride_id, user_id), throws
joinWriteRow(s) ==
    /\ inflight[s].pc = "write"
    /\ LET req == inflight[s]
           u == req.user_id
           r == req.ride_id
           throws == (req.existing = NoRec) # (participants[r][u] = NoRec)
       IN IF throws
          THEN /\ inflight' = [inflight EXCEPT ![s] = Done(req, "InternalServerError")]
               /\ UNCHANGED participants
          ELSE /\ req.existing = NoRec => rowCount(participants) < MaxParticipantRows
               /\ participants' = joinWrite(participants, participants[r][u], u, r,
                                            share(req.ride, req.rideParts), now)
               /\ inflight' = [inflight EXCEPT ![s] = Done(req, "ok")]
    /\ UNCHANGED <<rides, users, cancellations, now, vehicles>>

\* ----------------------------------------- POST /rides/cancel, await by await
\* The handler reads outside its transaction: the reads are one step each and
\* the prisma.$transaction another, which commits as a whole or, when one of
\* its statements throws, not at all.  A statement addressing a row by the id
\* read earlier throws once that row has been deleted: the request is then
\* marked rowGone, also if a row for the same (ride_id, user_id) is created
\* again, since that one has a new id.
cancelDone(req, result) ==
    [pc |-> "done", user_id |-> req.user_id, ride_id |-> req.ride_id, result |-> result]

\* only a booked record taken for a participation
cancelFindParticipantBookedOnly(s, u, r) ==
    /\ inflight[s] = NoRequest
    /\ inflight' = [inflight EXCEPT ![s] =
          IF participants[r][u].status # "booked"
          THEN [pc |-> "cancelFindRide", user_id |-> u, ride_id |-> r]
          ELSE [pc |-> "cancelParticipantTx", user_id |-> u, ride_id |-> r, row |-> u,
                penalty |-> participantPenalty(rides[r], participants[r][u], now),
                rowGone |-> FALSE]]
    /\ UNCHANGED <<rides, participants, users, cancellations, now, vehicles>>

\* const rp = await prisma.rideParticipant.findUnique({..., include: {ride}}),
\* and for a participant the penalty computed from rp.ride and new Date()
cancelFindParticipant(s, u, r) ==
    /\ inflight[s] = NoRequest
    /\ inflight' = [inflight EXCEPT ![s] =
          IF participants[r][u] = NoRec
          THEN [pc |-> "cancelFindRide", user_id |-> u, ride_id |-> r]
          ELSE [pc |-> "cancelParticipantTx", user_id |-> u, ride_id |-> r, row |-> u,
                penalty |-> participantPenalty(rides[r], participants[r][u], now),
                rowGone |-> FALSE]]
    /\ UNCHANGED <<rides, participants, users, cancellations, now, vehicles>>

\* const ride = await prisma.ride.findUnique({..., include: {participants:
\* booked, by booking_time}}), the two checks and the driver's penalty
cancelFindRide(s) ==
    /\ inflight[s].pc = "cancelFindRide"
    /\ LET req == inflight[s]
           u == req.user_id
           r == req.ride_id
       IN IF driverCancelError(rides[r], u) # "ok"
          THEN inflight' = [inflight EXCEPT ![s] = cancelDone(req, driverCancelError(rides[r], u))]
          ELSE \E first \in (IF BookedUsers(participants[r]) = {} THEN {"none"}
                              ELSE FirstBookedCandidates(participants[r])) :
                  inflight' = [inflight EXCEPT ![s] =
                      [pc |-> "cancelDriverTx", user_id |-> u, ride_id |-> r, row |-> first,
                       penalty |-> driverPenalty(rides[r], now), rowGone |-> FALSE]]
    /\ UNCHANGED <<rides, participants, users, cancellations, now, vehicles>>

\* the requests in flight that hold the id of the row of user f on ride r
holdsRow(req, r, f) ==
    /\ req.pc \in {"cancelDriverTx", "cancelParticipantTx"}
    /\ req.ride_id = r /\ req.row = f

\* the RideCancellation row created before the transaction is opened
cancelDriverTxLogsOutside(s) ==
    /\ inflight[s].pc = "cancelDriverTx"
    /\ LET req == inflight[s]
           u == req.user_id
           r == req.ride_id
           f == req.row
       IN IF f # "none" /\ req.rowGone
          THEN /\ inflight' = [inflight EXCEPT ![s] = cancelDone(req, "InternalServerError")]
               /\ cancellations' = logCancellation(cancellations, u, r)
               /\ UNCHANGED <<rides, participants, users>>
          ELSE /\ cancellations' = logCancellation(cancellations, u, r)
               /\ users' = applyPenalty(users, u, req.penalty)
               /\ IF f # "none"
                  THEN /\ rides' = [rides EXCEPT ![r] = [@ EXCEPT !.driver_id = f, !.status = "open"]]
                       /\ participants' = [participants EXCEPT ![r][f] = NoRec]
                  ELSE /\ rides' = [rides EXCEPT ![r].status = "cancelled"]
                       /\ UNCHANGED participants
               /\ inflight' = [t \in Slots |->
                      IF t = s THEN cancelDone(req, "ok")
                      ELSE IF f # "none" /\ holdsRow(inflight[t], r, f)
                      THEN [inflight[t] EXCEPT !.rowGone = TRUE]
                      ELSE inflight[t]]
    /\ UNCHANGED <<now, vehicles>>

\* await prisma.$transaction(...) of the driver: create the log row, update
\* the user, then update the ride and delete the promoted row, or cancel the ride
cancelDriverTx(s) ==
    /\ inflight[s].pc = "cancelDriverTx"
    /\ LET req == inflight[s]
           u == req.user_id
           r == req.ride_id
           f == req.row
       IN IF f # "none" /\ req.rowGone
          THEN /\ inflight' = [inflight EXCEPT ![s] = cancelDone(req, "InternalServerError")]
               /\ UNCHANGED <<rides, participants, users, cancellations>>
          ELSE /\ cancellations' = logCancellation(cancellations, u, r)
               /\ users' = applyPenalty(users, u, req.penalty)
               /\ IF f # "none"
                  THEN /\ rides' = [rides EXCEPT ![r] = [@ EXCEPT !.driver_id = f, !.status = "open"]]
                       /\ participants' = [participants EXCEPT ![r][f] = NoRec]
                  ELSE /\ rides' = [rides EXCEPT ![r].status = "cancelled"]
                       /\ UNCHANGED participants
               /\ inflight' = [t \in Slots |->
                      IF t = s THEN cancelDone(req, "ok")
                      ELSE IF f # "none" /\ holdsRow(inflight[t], r, f)
                      THEN [inflight[t] EXCEPT !.rowGone = TRUE]
                      ELSE inflight[t]]
    /\ UNCHANGED <<now, vehicles>>

\* await prisma.$transaction(...) of the participant: update the row, create
\* the log row, count the booked rows left, reopen the ride, update the user
cancelParticipantTx(s) ==
    /\ inflight[s].pc = "cancelParticipantTx"
    /\ LET req == inflight[s]
           u == req.user_id
           r == req.ride_id
           ps == [participants EXCEPT ![r][u].status = "cancelled"]
           remaining == bookedCount(ps[r])
       IN IF req.rowGone
          THEN /\ inflight' = [inflight EXCEPT ![s] = cancelDone(req, "InternalServerError")]
               /\ UNCHANGED <<rides, participants, users, cancellations>>
          ELSE /\ participants' = ps
               /\ cancellations' = logCancellation(cancellations, u, r)
               /\ rides' = IF remaining = 0 THEN [rides EXCEPT ![r].status = "open"] ELSE rides
               /\ users' = applyPenalty(users, u, credibilityDecrement(req.penalty))
               /\ inflight' = [inflight EXCEPT ![s] = cancelDone(req, "ok")]
    /\ UNCHANGED <<now, vehicles>>

\* res.status(...).json(...): the status and body a request is answered with
respond(op, u, r, result) ==
    response' = [op |-> op, user_id |-> u, ride_id |-> r, result |-> result]

Next ==
    \/ \E u \in Users, r \in RideIds, body \in RideRequests :
          createRide(u, r, body) /\ UNCHANGED response
    \/ \E u \in Users, r \in RideIds : joinRide(u, r) /\ UNCHANGED response
    \/ \E u \in Users, r \in RideIds : startRide(u, r) /\ UNCHANGED response
    \/ \E u \in Users, r \in RideIds : completeRide(u, r) /\ UNCHANGED response
    \/ \E u \in Users, r \in RideIds : cancelRequest(u, r, MaxCancels) /\ UNCHANGED response
    \/ Tick(MaxNow) /\ UNCHANGED response

\* requests handled one at a time
Spec == Init /\ [][Next]_vars

NextConc ==
    \/ \E u \in Users, r \in RideIds, body \in RideRequests :
          createRide(u, r, body) /\ UNCHANGED response
    \/ \E s \in Slots, u \in Users, r \in RideIds : joinFindRide(s, u, r) /\ UNCHANGED response
    \/ \E s \in Slots : joinFindActive(s) /\ UNCHANGED response
    \/ \E s \in Slots : joinFindExisting(s) /\ UNCHANGED response
    \/ \E s \in Slots : joinWriteRow(s) /\ UNCHANGED response
    \/ \E u \in Users, r \in RideIds : cancelRequest(u, r, MaxCancelsConc) /\ UNCHANGED response

\* join requests interleaved at their awaits, with whole cancellations between
SpecConc == Init /\ [][NextConc]_vars

NextCancel ==
    \/ \E u \in Users, r \in RideIds, body \in RideRequests :
          createRide(u, r, body) /\ UNCHANGED response
    \/ \E u \in Users, r \in RideIds : joinRide(u, r) /\ UNCHANGED response
    \/ \E s \in Slots, u \in Users, r \in RideIds :
          cancelFindParticipant(s, u, r) /\ UNCHANGED response
    \/ \E s \in Slots : cancelFindRide(s) /\ UNCHANGED response
    \/ \E s \in Slots : cancelDriverTx(s) /\ UNCHANGED response
    \/ \E s \in Slots : cancelParticipantTx(s) /\ UNCHANGED response

\* cancel requests interleaved at their awaits, with whole joins between
SpecCancel == Init /\ [][NextCancel]_vars

NextCreate ==
    \E u \in Users, r \in RideIds, body \in CreateRequests :
        createRide(u, r, body) /\ UNCHANGED response

\* rides created, from request bodies of every shape
SpecCreate == Init /\ [][NextCreate]_vars

NextObs ==
    \/ \E u \in Users, r \in ObservedRides, body \in RideRequests :
          createRide(u, r, body) /\ respond("create", u, r, "ok")
    \/ \E u \in Users, r \in RideIds : joinRide(u, r) /\ respond("join", u, r, joinResult(u, r))
    \/ \E u \in Users, r \in RideIds : startRide(u, r) /\ respond("start", u, r, startResult(u, r))
    \/ \E u \in Users, r \in RideIds :
          completeRide(u, r) /\ respond("complete", u, r, completeResult(u, r))
    \/ \E u \in Users, r \in RideIds :
          cancelRequest(u, r, MaxCancelsObs) /\ respond("cancel", u, r, cancelResult(u, r))
    \/ Tick(MaxNowObs) /\ UNCHANGED response

\* requests handled one at a time, each with the response it was given
SpecObs == Init /\ [][NextObs]_obsVars

\* ----------------------------------------------------------------- claims
Headcount(r) == bookedCount(participants[r]) + 1

\* the scheduled start: start_date combined with start_time
ScheduledStart(ride) == DayStart(ride.start_date) + HourOfDay(ride.start_time)

\* the penalty tiers: 5 when less than 3 hours remain, else 2
TierPenalty(ride, t) == IF ScheduledStart(ride) - t < 3 THEN 5 ELSE 2

\* u holds a booked participation on r, r is open or active and starts in the future
ActiveParticipation(u, r) ==
    /\ rides[r] # NoRide
    /\ participants[r][u].status = "booked"
    /\ rides[r].status \in {"open", "active"}
    /\ ScheduledStart(rides[r]) > now

\* the step answers the request op of user u about ride r
Answered(op, u, r) ==
    /\ response'.op = op /\ response'.user_id = u /\ response'.ride_id = r
    /\ now' = now

\* a step that adds a RideCancellation row is a cancelRide that went through
IsDriverCancel(u, r) ==
    /\ cancellations' # cancellations
    /\ rides[r] # NoRide /\ rides[r].driver_id = u /\ participants[r][u] = NoRec

IsParticipantCancel(u, r) == cancellations' # cancellations /\ participants[r][u] # NoRec

\* C1: with requests handled one at a time, every ride has
\* (booked participants) + 1 <= max_passengers
C1_CapacityInvariant ==
    \A r \in RideIds : rides[r] # NoRide => Headcount(r) <= rides[r].max_passengers

\* a three-seat ride filled by two joins
C1_Witness ==
    \E r \in RideIds : rides[r] # NoRide /\ rides[r].max_passengers = 3 /\ Headcount(r) = 3

\* C2: two interleaved joinRide requests by different users that both read the
\* same ride with exactly one free seat never both succeed (one gets RideFull),
\* so booked + 1 never exceeds max_passengers
C2_OneJoinWinsLastSeat ==
    \A s, t \in Slots :
        ( /\ s # t
          /\ inflight[s].pc = "done" /\ inflight[t].pc = "done"
          /\ inflight[s].ride_id = inflight[t].ride_id
          /\ inflight[s].user_id # inflight[t].user_id
          /\ inflight[s].ride # NoRide /\ inflight[t].ride = inflight[s].ride
          /\ inflight[t].rideParts = inflight[s].rideParts
          /\ bookedCount(inflight[s].rideParts) + 2 = inflight[s].ride.max_passengers
          /\ inflight[s].result = "ok"
          /\ participants[inflight[s].ride_id][inflight[s].user_id].status = "booked" )
        => /\ inflight[t].result # "ok"
           /\ Headcount(inflight[s].ride_id) <= rides[inflight[s].ride_id].max_passengers

\* C3: once a ride is completed or cancelled its status never changes again
C3_TerminalStatus ==
    [][\A r \in RideIds :
          rides[r].status \in {"completed", "cancelled"} => rides'[r].status = rides[r].status]_vars

\* C4: a user holding a booked participation on an open or active ride that
\* starts in the future is refused, with the active-booking error, on any
\* other open ride that starts in the future and that they do not host
C4_SecondJoinRejected ==
    \A u \in Users, q, r \in RideIds :
        ( /\ q # r
          /\ ActiveParticipation(u, q)
          /\ rides[r] # NoRide /\ rides[r].status = "open" /\ ScheduledStart(rides[r]) > now
          /\ rides[r].driver_id # u )
        => joinResult(u, r) = "You already have an active booking for another ride"

\* C5: no user ever holds two booked participations on open or active rides
\* that start in the future
C5_SingleActiveBooking ==
    \A u \in Users : Cardinality({r \in RideIds : ActiveParticipation(u, r)}) <= 1

\* C6: a driver's cancelRide on a ride with booked participants makes a booked
\* participant of smallest booking_time the driver, deletes that row, leaves
\* every other row as it was, sets the status to open and reports transferred
C6_DriverSuccession ==
    [][\A u \in Users, r \in RideIds :
          (IsDriverCancel(u, r) /\ BookedUsers(participants[r]) # {} /\ cancelRide(u, r))
          => \E f \in BookedUsers(participants[r]) :
                /\ \A v \in BookedUsers(participants[r]) :
                      participants[r][f].booking_time <= participants[r][v].booking_time
                /\ rides'[r].driver_id = f
                /\ participants'[r][f] = NoRec
                /\ \A r2 \in RideIds, v \in Users :
                      <<r2, v>> # <<r, f>> => participants'[r2][v] = participants[r2][v]
                /\ rides'[r].status = "open"
                /\ cancelResponse(u, r).transferred]_vars

\* a ride handed over to its earliest participant while a later one stays booked
C6_Witness ==
    \E r \in RideIds, u \in Users :
        /\ Len(cancellations) > 0
        /\ cancellations[Len(cancellations)] = [ride_id |-> r, user_id |-> u]
        /\ rides[r].status = "open" /\ rides[r].driver_id # u
        /\ participants[r][u] = NoRec
        /\ participants[r][rides[r].driver_id] = NoRec
        /\ BookedUsers(participants[r]) # {}

\* C7: a driver's cancelRide on a ride without booked participants sets the
\* status to cancelled, keeps driver_id and reports transferred = false
C7_DriverCancelNoParticipants ==
    [][\A u \in Users, r \in RideIds :
          (IsDriverCancel(u, r) /\ BookedUsers(participants[r]) = {} /\ cancelRide(u, r))
          => /\ rides'[r].status = "cancelled"
             /\ rides'[r].driver_id = u
             /\ ~cancelResponse(u, r).transferred]_vars

\* a ride cancelled by the driver it still has
C7_Witness ==
    \E r \in RideIds :
        /\ rides[r].status = "cancelled"
        /\ cancellations = <<[ride_id |-> r, user_id |-> rides[r].driver_id]>>

\* C8: a participant's cancellation, whatever the positive share_fare, costs
\* 5 credibility points when less than 3 hours remain and 2 otherwise
C8_ParticipantPenaltyTiers ==
    [][\A u \in Users, r \in RideIds :
          (IsParticipantCancel(u, r) /\ participants[r][u].share_fare.num > 0 /\ cancelRide(u, r))
          => users'[u].credibility_score = users[u].credibility_score - TierPenalty(rides[r], now)]_vars

\* C9: a driver's cancellation costs 5 credibility points when less than
\* 3 hours remain and 2 otherwise, and adds 1 to cancellation_count, with or
\* without succession
C9_DriverPenaltyTiers ==
    [][\A u \in Users, r \in RideIds :
          (IsDriverCancel(u, r) /\ cancelRide(u, r))
          => /\ users'[u].credibility_score = users[u].credibility_score - TierPenalty(rides[r], now)
             /\ users'[u].cancellation_count = users[u].cancellation_count + 1]_vars

\* a driver who handed the ride over exactly 3 hours before the start
C9_Witness ==
    \E r \in RideIds, u \in Users :
        /\ cancellations = <<[ride_id |-> r, user_id |-> u]>>
        /\ participants[r][u] = NoRec /\ rides[r].driver_id # u
        /\ ScheduledStart(rides[r]) - now = 3
        /\ users[u] = [credibility_score |-> InitialCredibility - 2, cancellation_count |-> 1]

\* C10: a participant's cancelRide sets the ride to open when no booked
\* participant remains, leaves the status alone when one remains, and keeps
\* the caller's row, now cancelled
C10_ParticipantCancelStatus ==
    [][\A u \in Users, r \in RideIds :
          (IsParticipantCancel(u, r) /\ cancelRide(u, r))
          => /\ participants'[r][u] = [participants[r][u] EXCEPT !.status = "cancelled"]
             /\ bookedCount(participants'[r]) = 0 => rides'[r].status = "open"
             /\ bookedCount(participants'[r]) > 0 => rides'[r].status = rides[r].status]_vars

\* a started ride that stays active when one of its two participants cancels
C10_Witness ==
    \E r \in RideIds, u \in Users :
        /\ cancellations = <<[ride_id |-> r, user_id |-> u]>>
        /\ participants[r][u].status = "cancelled"
        /\ bookedCount(participants[r]) = 1
        /\ rides[r].status = "active"

\* C11: a successful joinRide on a ride with B booked participants stores
\* share_fare = total_fare / (B + 2) on the joiner's record, now booked:
\* share_fare * (B + 2) = total_fare
C11_JoinShare ==
    [][\A u \in Users, r \in RideIds :
          (participants' # participants /\ joinResult(u, r) = "ok" /\ joinRide(u, r))
          => LET B == bookedCount(participants[r])
                 sf == participants'[r][u].share_fare
             IN /\ participants'[r][u].status = "booked"
                /\ sf.num * (B + 2) = rides[r].total_fare * sf.den]_vars

\* a ride joined twice: the first joiner holds half the fare, the second a third
C11_Witness ==
    \E r \in RideIds, u, v \in Users :
        /\ participants[r][u].status = "booked" /\ participants[r][v].status = "booked"
        /\ participants[r][u].share_fare = [num |-> rides[r].total_fare, den |-> 2]
        /\ participants[r][v].share_fare = [num |-> rides[r].total_fare, den |-> 3]

\* C12: a joinRide or cancelRide by one user leaves the share_fare of every
\* other user's record on the ride as it was, and a record's share_fare
\* changes only in a successful joinRide of its own user
C12_ShareFareFrame ==
    [][participants' # participants =>
          /\ \A u \in Users, r \in RideIds :
                (joinRide(u, r) \/ cancelRide(u, r))
                => \A v \in Users \ {u} :
                      (participants[r][v] # NoRec /\ participants'[r][v] # NoRec)
                      => participants'[r][v].share_fare = participants[r][v].share_fare
          /\ \A v \in Users, r \in RideIds :
                ( /\ participants[r][v] # NoRec /\ participants'[r][v] # NoRec
                  /\ participants'[r][v].share_fare # participants[r][v].share_fare )
                => joinResult(v, r) = "ok" /\ joinRide(v, r)]_vars

\* a record that keeps its third of the fare after the other participant left
C12_Witness ==
    \E r \in RideIds, u, v \in Users :
        /\ participants[r][u].status = "cancelled"
        /\ participants[r][v].status = "booked"
        /\ bookedCount(participants[r]) = 1
        /\ participants[r][v].share_fare = [num |-> rides[r].total_fare, den |-> 3]

\* C13: startRide sets the status to active exactly when the ride exists, the
\* caller is its driver, it is open and now is at or after the scheduled
\* start, and fails with TooEarly when now is before it; completeRide sets
\* the status to completed exactly when the caller is the driver and the ride
\* is active; in every other case the ride is left as it was
C13_StartCompleteGuards ==
    [][\A u \in Users, r \in RideIds :
          LET mine == rides[r] # NoRide /\ rides[r].driver_id = u
              mayStart == mine /\ rides[r].status = "open" /\ now >= ScheduledStart(rides[r])
              early == mine /\ rides[r].status = "open" /\ now < ScheduledStart(rides[r])
              mayComplete == mine /\ rides[r].status = "active"
          IN /\ Answered("start", u, r)
                => /\ rides' = IF mayStart THEN [rides EXCEPT ![r].status = "active"] ELSE rides
                   /\ early => response'.result = "TooEarly"
             /\ Answered("complete", u, r)
                => rides' = IF mayComplete THEN [rides EXCEPT ![r].status = "completed"] ELSE rides
      ]_obsVars

\* C14 as stated: whoever calls, startRide on a completed or cancelled ride
\* and completeRide on an open ride fail with InvalidState
C14_InvalidStateAnyCaller ==
    [][\A u \in Users, r \in RideIds :
          /\ (Answered("start", u, r) /\ rides[r].status \in {"completed", "cancelled"})
                => response'.result = "InvalidState"
          /\ (Answered("complete", u, r) /\ rides[r].status = "open")
                => response'.result = "InvalidState"]_obsVars

\* C14 amended: called by the ride's current driver, startRide on a completed
\* or cancelled ride and completeRide on an open ride fail with InvalidState;
\* called by anyone else they fail with NotRideOwner
C14_InvalidStateForDriver ==
    [][\A u \in Users, r \in RideIds :
          LET expected == IF rides[r].driver_id = u THEN "InvalidState" ELSE "NotRideOwner"
          IN /\ (Answered("start", u, r) /\ rides[r].status \in {"completed", "cancelled"})
                   => response'.result = expected /\ rides' = rides
             /\ (Answered("complete", u, r) /\ rides[r].status = "open")
                   => response'.result = expected /\ rides' = rides]_obsVars

\* the driver of a completed ride asked to start it again and was refused
C14_Witness ==
    \E r \in RideIds :
        /\ rides[r].status = "completed"
        /\ response = [op |-> "start", user_id |-> rides[r].driver_id, ride_id |-> r,
                       result |-> "InvalidState"]

\* the error of the first precondition of joinRide that fails, in the order
\* ride exists, status open, caller not the driver, no active booking, ride
\* not full, no booked record on this ride (the kinds written as the handler
\* words them); hasActive says whether the caller holds an active booking
JoinOrderExpected(u, r, hasActive) ==
    IF rides[r] = NoRide THEN "RideNotFound"
    ELSE IF rides[r].status # "open" THEN "RideNotOpen"
    ELSE IF rides[r].driver_id = u THEN "Cannot book your own ride"
    ELSE IF hasActive THEN "You already have an active booking for another ride"
    ELSE IF ~(Headcount(r) < rides[r].max_passengers) THEN "RideFull"
    ELSE IF participants[r][u].status = "booked" THEN "AlreadyBooked"
    ELSE "ok"

\* C15: joinRide answers with the error of the first failing precondition in
\* the order above, whether a booking on the very ride asked for counts as
\* an active booking or only one on another ride does
C15_JoinPreconditionOrder ==
    \A u \in Users, r \in RideIds :
        joinResult(u, r) \in
            { JoinOrderExpected(u, r, \E q \in RideIds \ {r} : ActiveParticipation(u, q)),
              JoinOrderExpected(u, r, \E q \in RideIds : ActiveParticipation(u, q)) }

\* C16: joinRide by a user whose record on that open ride is booked fails
\* with AlreadyBooked and changes nothing
C16_AlreadyBooked ==
    [][\A u \in Users, r \in RideIds :
          ( /\ Answered("join", u, r)
            /\ rides[r].status = "open" /\ participants[r][u].status = "booked" )
          => response'.result = "AlreadyBooked" /\ UNCHANGED vars]_obsVars

\* the error kinds of the interface
JoinErrorKinds ==
    {"RideNotFound", "RideNotOpen", "CannotBookOwnRide", "AlreadyInActiveRide", "RideFull",
     "AlreadyBooked"}

StartErrorKinds == {"RideNotFound", "NotRideOwner", "InvalidState", "TooEarly"}

\* C17: a failed joinRide reports a kind of JoinErrorKinds and a failed
\* startRide a kind of StartErrorKinds
C17_ErrorKinds ==
    /\ response.op = "join" => response.result \in JoinErrorKinds \cup {"ok"}
    /\ response.op = "start" => response.result \in StartErrorKinds \cup {"ok"}

\* C18: cancelRide on a ride id that does not exist fails with RideNotFound,
\* cancelRide by a user who has no record on the ride and is not its driver
\* fails with NotRideOwner, and neither changes a ride, a participant record,
\* a user or the cancellation log
C18_CancelErrors ==
    [][\A u \in Users, r \in RideIds :
          Answered("cancel", u, r)
          => /\ rides[r] = NoRide
                  => response'.result = "RideNotFound" /\ UNCHANGED vars
             /\ (rides[r] # NoRide /\ participants[r][u] = NoRec /\ rides[r].driver_id # u)
                  => response'.result = "NotRideOwner" /\ UNCHANGED vars]_obsVars

\* a stranger to a ride with a booking asked to cancel it and was refused
C18_Witness ==
    \E u \in Users, r \in RideIds :
        /\ rides[r] # NoRide /\ rides[r].driver_id # u /\ participants[r][u] = NoRec
        /\ bookedCount(participants[r]) = 1
        /\ cancellations = <<>>
        /\ response = [op |-> "cancel", user_id |-> u, ride_id |-> r, result |-> "NotRideOwner"]

\* C19: a joinRide, startRide, completeRide or cancelRide request answered
\* with an error leaves rides, participant records, users and the
\* cancellation log as they were
C19_ErrorsChangeNothing ==
    [][( /\ response'.op \in {"join", "start", "complete", "cancel"}
         /\ now' = now
         /\ response'.result # "ok" )
       => UNCHANGED <<rides, participants, users, cancellations>>]_obsVars

\* a join refused on a full ride
C19_Witness ==
    \E u \in Users, r \in RideIds :
        /\ rides[r] # NoRide /\ Headcount(r) = rides[r].max_passengers
        /\ response = [op |-> "join", user_id |-> u, ride_id |-> r, result |-> "RideFull"]

\* the RideCancellation rows carrying the id of user u
LogRowsOf(u) == {i \in 1..Len(cancellations) : cancellations[i].user_id = u}

\* the step is one whole cancellation by u on r: its log row, its counter
\* increment, its credibility decrement and its status or succession change
WholeCancellation(u, r) ==
    /\ cancellations' = Append(cancellations, [ride_id |-> r, user_id |-> u])
    /\ \E d \in {2, 5} :
          users' = [users EXCEPT ![u] = [credibility_score |-> @.credibility_score - d,
                                        cancellation_count |-> @.cancellation_count + 1]]
    /\ \/ participants[r][u] # NoRec /\ participants'[r][u].status = "cancelled"
       \/ rides'[r].status = "cancelled" /\ participants' = participants
       \/ \E f \in Users :
             /\ participants[r][f] # NoRec /\ participants'[r][f] = NoRec
             /\ rides'[r].driver_id = f /\ rides'[r].status = "open"

\* C20: with cancelRide requests interleaved, every user's cancellation_count
\* equals the number of RideCancellation rows carrying the user's id; a step
\* that changes the log or a user is one whole cancellation; rows are only
\* added and cancellation_count never decreases
C20_CountMatchesLog ==
    /\ [](\A u \in Users : users[u].cancellation_count = Cardinality(LogRowsOf(u)))
    /\ [][ /\ Len(cancellations') >= Len(cancellations)
           /\ SubSeq(cancellations', 1, Len(cancellations)) = cancellations
           /\ \A u \in Users : users'[u].cancellation_count >= users[u].cancellation_count
           /\ (cancellations' # cancellations \/ users' # users)
                 => \E u \in Users, r \in RideIds : WholeCancellation(u, r) ]_vars

\* two cancellations of one driver that overlapped: the first handed the ride
\* over, the second was rolled back and left neither a row nor a count
C20_Witness ==
    \E s, t \in Slots, u \in Users :
        /\ inflight[s].pc = "done" /\ inflight[s].result = "ok"
        /\ inflight[t].pc = "done" /\ inflight[t].result = "InternalServerError"
        /\ inflight[s].user_id = u /\ inflight[t].user_id = u
        /\ inflight[s].ride_id = inflight[t].ride_id
        /\ Len(cancellations) = 1 /\ users[u].cancellation_count = 1

\* the seats a vehicle type allows: car 4, suv 6, auto 3
VehicleCapacity(vehicle_type) ==
    IF vehicle_type = "suv" THEN 6 ELSE IF vehicle_type = "car" THEN 4 ELSE 3

\* C21: every ride createRide accepted has 1 <= max_passengers <= 6 and
\* max_passengers at most the capacity of its vehicle's type
C21_MaxPassengersByVehicle ==
    \A r \in RideIds :
        rides[r] # NoRide
        => /\ rides[r].max_passengers >= 1 /\ rides[r].max_passengers <= 6
           /\ rides[r].max_passengers <= VehicleCapacity(vehicles[rides[r].vehicle_id])

\* C22: a ride's driver_id changes only in a driver's cancelRide that finds a
\* booked participant, and no step changes a ride's total_fare or
\* max_passengers
C22_DriverIdFrame ==
    [][rides' # rides =>
          \A r \in RideIds :
              rides[r] # NoRide
              => /\ rides'[r].total_fare = rides[r].total_fare
                 /\ rides'[r].max_passengers = rides[r].max_passengers
                 /\ rides'[r].driver_id # rides[r].driver_id
                       => \E u \in Users :
                             /\ IsDriverCancel(u, r) /\ BookedUsers(participants[r]) # {}
                             /\ cancelRide(u, r)]_vars

\* the three-seat ride handed over by its creator, fare and seats as created
C22_Witness ==
    \E r \in RideIds :
        /\ rides[r] # NoRide /\ rides[r].driver_id # rides[r].vehicle_id
        /\ rides[r].total_fare = 4 /\ rides[r].max_passengers = 3

\* C23: a joinRide by a user whose record for the ride is cancelled reuses that
\* record (status booked, share_fare recomputed, no record added), and a
\* record disappears only when its user becomes the driver; there is one
\* record per (ride_id, user_id), the key the table is indexed by
C23_OneRecordPerUser ==
    [][participants' # participants =>
          \A u \in Users, r \in RideIds :
              /\ (participants[r][u].status = "cancelled" /\ joinResult(u, r) = "ok" /\ joinRide(u, r))
                    => /\ participants'[r][u] =
                             [participants[r][u] EXCEPT
                                 !.status = "booked",
                                 !.share_fare = [num |-> rides[r].total_fare,
                                                 den |-> bookedCount(participants[r]) + 2]]
                       /\ rowCount(participants') = rowCount(participants)
              /\ (participants[r][u] # NoRec /\ participants'[r][u] = NoRec)
                    => rides'[r].driver_id = u /\ rides[r].driver_id # u]_vars

\* a user back on the ride they had left, on the one record the table holds
C23_Witness ==
    \E r \in RideIds, u \in Users :
        /\ cancellations = <<[ride_id |-> r, user_id |-> u]>>
        /\ participants[r][u].status = "booked"
        /\ rowCount(participants) = 1

\* C28: the current driver of a ride has no participant record for it
C28_DriverHasNoRecord ==
    \A r \in RideIds : rides[r] # NoRide => participants[r][rides[r].driver_id] = NoRec

\* a ride whose creator handed it over and then joined it as a participant
C28_Witness ==
    \E r \in RideIds :
        /\ rides[r] # NoRide /\ rides[r].driver_id # rides[r].vehicle_id
        /\ participants[r][rides[r].vehicle_id].status = "booked"
        /\ participants[r][rides[r].driver_id] = NoRec

\* C30: a rejoin on a cancelled record keeps the record's booking_time, and a
\* driver succession promotes a booked participant of smallest booking_time,
\* so a rejoiner is ranked by the first join
C30_RejoinKeepsBookingTime ==
    [][\A u \in Users, r \in RideIds :
          /\ ( /\ participants' # participants /\ participants[r][u].status = "cancelled"
               /\ joinResult(u, r) = "ok" /\ joinRide(u, r) )
                => /\ participants'[r][u].status = "booked"
                   /\ participants'[r][u].booking_time = participants[r][u].booking_time
          /\ (IsDriverCancel(u, r) /\ BookedUsers(participants[r]) # {} /\ cancelRide(u, r))
                => \A v \in BookedUsers(participants[r]) :
                      participants[r][rides'[r].driver_id].booking_time
                          <= participants[r][v].booking_time]_vars

\* a rejoiner whose share was computed with v on the ride and whose
\* booking_time is earlier than v's: the succession would promote the rejoiner
C30_Witness ==
    \E r \in RideIds, u, v \in Users :
        /\ cancellations = <<[ride_id |-> r, user_id |-> u]>>
        /\ participants[r][u].status = "booked" /\ participants[r][v].status = "booked"
        /\ participants[r][u].share_fare.den = 3
        /\ participants[r][u].booking_time < participants[r][v].booking_time
        /\ FirstBookedCandidates(participants[r]) = {u}

\* u drove ride r and handed it over: a RideCancellation row of u for r, no
\* participant record, and another user as driver
FormerDriver(u, r) ==
    /\ rides[r] # NoRide /\ rides[r].driver_id # u /\ participants[r][u] = NoRec
    /\ \E i \in 1..Len(cancellations) : cancellations[i] = [ride_id |-> r, user_id |-> u]

\* u is the driver of a ride another user created
PromotedDriver(u, r) ==
    rides[r] # NoRide /\ rides[r].driver_id = u /\ rides[r].vehicle_id # u

\* C26: a former driver without a participant record is answered NotRideOwner
\* by startRide, completeRide and cancelRide, which then change nothing; the
\* promoted user is never answered NotRideOwner by them
C26_FormerDriverRefused ==
    [][\A u \in Users, r \in RideIds :
          /\ ( /\ FormerDriver(u, r)
               /\ Answered("start", u, r) \/ Answered("complete", u, r) \/ Answered("cancel", u, r) )
                => response'.result = "NotRideOwner" /\ UNCHANGED vars
          /\ (PromotedDriver(u, r) /\ (Answered("start", u, r) \/ Answered("complete", u, r)))
                => response'.result # "NotRideOwner"
          /\ PromotedDriver(u, r) => cancelResult(u, r) = "ok"]_obsVars

\* the former driver refused on the ride the promoted user has completed
C26_Witness ==
    \E u \in Users, r \in RideIds :
        /\ FormerDriver(u, r) /\ rides[r].status = "completed"
        /\ response.op \in {"start", "complete", "cancel"}
        /\ response.user_id = u /\ response.ride_id = r
        /\ response.result = "NotRideOwner"

\* C29: with requests handled one at a time a cancelled ride has no booked
\* participant, and a joinRide on it is answered RideNotOpen
C29_CancelledRideEmpty ==
    /\ [](\A r \in RideIds :
            (rides[r] # NoRide /\ rides[r].status = "cancelled")
            => bookedCount(participants[r]) = 0)
    /\ [][\A u \in Users, r \in RideIds :
            (rides[r] # NoRide /\ rides[r].status = "cancelled" /\ Answered("join", u, r))
            => response'.result = "RideNotOpen" /\ UNCHANGED vars]_obsVars

\* a join refused on a ride its driver cancelled
C29_Witness ==
    \E u \in Users, r \in RideIds :
        /\ rides[r] # NoRide /\ rides[r].status = "cancelled"
        /\ cancellations = <<[ride_id |-> r, user_id |-> rides[r].driver_id]>>
        /\ response = [op |-> "join", user_id |-> u, ride_id |-> r, result |-> "RideNotOpen"]

\* request s commits a driver's cancellation of ride r in this step
DriverTxCommits(s, r) ==
    /\ inflight[s].pc = "cancelDriverTx" /\ inflight[s].ride_id = r
    /\ inflight'[s].pc = "done" /\ inflight'[s].result = "ok"

\* C24: with a joinRide and the driver's cancelRide of the same ride in
\* flight together, no cancelled ride has a booked participant, and a
\* cancellation that commits while the ride has booked participants hands
\* the ride to one of them
C24_JoinCancelSerialised ==
    /\ [](\A r \in RideIds :
            (rides[r] # NoRide /\ rides[r].status = "cancelled")
            => bookedCount(participants[r]) = 0)
    /\ [][\A s \in Slots, r \in RideIds :
            (DriverTxCommits(s, r) /\ BookedUsers(participants[r]) # {})
            => /\ rides'[r].status = "open"
               /\ rides'[r].driver_id \in BookedUsers(participants[r])]_vars

\* C25: with the driver's cancelRide and a participant's cancelRide of the
\* same ride in flight together, the user a succession makes driver_id has
\* status booked when the succession commits
C25_PromotedIsBooked ==
    [][\A r \in RideIds :
          (rides[r] # NoRide /\ rides'[r].driver_id # rides[r].driver_id)
          => participants[r][rides'[r].driver_id].status = "booked"]_vars

\* C27: a cancelRide by a user whose record for the ride is cancelled takes
\* the participant branch, and its transaction appends a RideCancellation
\* row, adds one to cancellation_count and takes a penalty off
\* credibility_score while the record stays cancelled
C27_RepeatedCancelPenalised ==
    [][\A s \in Slots, u \in Users, r \in RideIds :
          /\ ( /\ inflight[s] = NoRequest /\ inflight'[s] # NoRequest
               /\ inflight'[s].user_id = u /\ inflight'[s].ride_id = r
               /\ participants[r][u].status = "cancelled" )
                => inflight'[s].pc = "cancelParticipantTx"
          /\ ( /\ inflight[s].pc = "cancelParticipantTx"
               /\ inflight[s].user_id = u /\ inflight[s].ride_id = r
               /\ inflight'[s].pc = "done" /\ inflight'[s].result = "ok"
               /\ participants[r][u].status = "cancelled" )
                => /\ cancellations' = Append(cancellations, [ride_id |-> r, user_id |-> u])
                   /\ users'[u].cancellation_count = users[u].cancellation_count + 1
                   /\ users[u].credibility_score - users'[u].credibility_score
                         \in {EarlyPenalty, LatePenalty}
                   /\ participants'[r][u].status = "cancelled"]_vars

\* two cancellations by one user on one participation: two log rows, the
\* counter at two, two penalties taken
C27_Witness ==
    \E u \in Users, r \in RideIds :
        /\ participants[r][u].status = "cancelled"
        /\ cancellations = <<[ride_id |-> r, user_id |-> u], [ride_id |-> r, user_id |-> u]>>
        /\ users[u].cancellation_count = 2
        /\ users[u].credibility_score <= InitialCredibility - 2 * EarlyPenalty

====
